---------------------------- MODULE Spec2Model ----------------------------
(***************************************************************************)
(* openclaw-calendar: the occurrence expander and the render pass of       *)
(* scripts/generate.py, and the sync cycle of scripts/sync_jobs.py.        *)
(*                                                                         *)
(* Time.  An instant is a number of minutes on the display-timezone        *)
(* (Asia/Taipei, no DST) wall clock, counted from an epoch that is a       *)
(* Monday 00:00.  A job timezone is a fixed UTC offset; the wall clock of  *)
(* a job is instant + Delta(tz).  Zones with DST transitions inside the    *)
(* window are outside this model.                                          *)
(***************************************************************************)
EXTENDS Integers, Sequences, FiniteSets, TLC

VARIABLES
    \* ---- get_occurrences (generate.py:24-47), one call ----
    job,          \* the job record passed in
    week_days,    \* the 7 day anchors passed in (instants)
    it,           \* position of the croniter iterator (job wall clock)
    results,      \* the list being built
    runs,         \* history: the firing (job wall clock) behind each element of results
    pc,           \* position in get_occurrences
    \* ---- render pass (generate.py main / generate_html) ----
    clock,        \* the ambient clock, datetime.now(DISPLAY_TZ)
    r_jobs,       \* jobs loaded from schedules/jobs.json
    r_week,       \* week_days as returned by get_week_range
    r_now,        \* `now` read by generate_html
    r_grid,       \* grid[day][hour]: the list of job indexes appended to the cell
    r_idx,        \* index of the next job of the grid loop
    r_today,      \* set of header indexes marked "today"
    r_pc,         \* position in the render pass
    r_ticks,      \* minutes the clock advanced during the pass
    \* ---- sync cycle (sync_jobs.py main) ----
    store,        \* schedules/jobs.json: the list of job records (empty: no file)
    html,         \* docs/index.html as last generated, or NoPage
    head,         \* the tree of the local HEAD commit: <<store, html>>
    ahead,        \* number of local commits not pushed
    stamp,        \* the minute shown in the page's update-time label
    q,            \* result of the `openclaw cron list --json` subprocess
    fetched,      \* jobs returned by get_openclaw_jobs
    s_pc,         \* position in main
    s_exit,       \* exit status of the last cycle that ended
    s_cycles,     \* cycles started
    s_edits,      \* manual edits of the job store made
    store0,       \* history: the job store when the cycle started
    s_log         \* history: the steps the cycle executed

expVars == <<job, week_days, it, results, runs, pc>>
renVars == <<clock, r_jobs, r_week, r_now, r_grid, r_idx, r_today, r_pc, r_ticks>>
synVars == <<store, html, head, ahead, stamp, q, fetched, s_pc, s_exit,
             s_cycles, s_edits, store0, s_log>>
vars == <<expVars, renVars, synVars>>

(***************************************************************************)
(* Calendar arithmetic                                                     *)
(***************************************************************************)
MinPerHour == 60
HoursPerDay == 24
MinPerDay == MinPerHour * HoursPerDay
DaysPerWeek == 7
MinPerWeek == MinPerDay * DaysPerWeek

\* datetime.weekday() / .hour / .minute / .date() of an instant or wall time
Weekday(t) == (t \div MinPerDay) % DaysPerWeek
HourOf(t) == (t % MinPerDay) \div MinPerHour
MinuteOf(t) == t % MinPerHour
DateOf(t) == t \div MinPerDay

\* The epoch (day 0) is Monday 2026-10-26; the month and the day of month of
\* a day index, for the days the model can reach (until 2027-01-31).
LastDay == 97
MonthOf(d) == IF d <= 5 THEN 10 ELSE IF d <= 35 THEN 11 ELSE IF d <= 66 THEN 12 ELSE 1
DomOf(d) == IF d <= 5 THEN 26 + d ELSE IF d <= 35 THEN d - 5 ELSE IF d <= 66 THEN d - 35 ELSE d - 66

(***************************************************************************)
(* Timezones: ZoneInfo(name)                                               *)
(***************************************************************************)
DISPLAY_TZ == "Asia/Taipei"
NoTz == "<no tz key>"
KnownZones == {"Etc/GMT+12", "America/Bogota", "UTC", "Asia/Kolkata",
               "Asia/Taipei", "Asia/Tokyo", "Pacific/Kiritimati"}
UnknownZones == {"Mars/Phobos"}

\* UTC offset of a known zone, minutes
UtcOffset(tz) ==
    CASE tz = "Etc/GMT+12" -> 0 - 720
      [] tz = "America/Bogota" -> 0 - 300
      [] tz = "UTC" -> 0
      [] tz = "Asia/Kolkata" -> 330
      [] tz = "Asia/Taipei" -> 480
      [] tz = "Asia/Tokyo" -> 540
      [] tz = "Pacific/Kiritimati" -> 840

\* job.get("tz", "UTC")
TzName(j) == IF j.tz = NoTz THEN "UTC" ELSE j.tz
\* ZoneInfo(...) raises ZoneInfoNotFoundError for a key that is no zone
ZoneResolves(name) == name \in KnownZones
\* x.astimezone(job_tz): the wall clock of the job at a display instant,
\* and back (next_run.astimezone(DISPLAY_TZ))
Delta(tz) == UtcOffset(tz) - UtcOffset(DISPLAY_TZ)
ToJobWall(t, tz) == t + Delta(tz)
ToDisplay(w, tz) == w - Delta(tz)

(***************************************************************************)
(* croniter: a cron expression is the sequence of its fields, each field   *)
(* the set of values it admits ("*" is the whole range).                   *)
(***************************************************************************)
AllMinutes == 0 .. 59
AllHours == 0 .. 23
AllDoms == 1 .. 31
AllMonths == 1 .. 12
AllDows == 0 .. 6          \* 0 = Monday, as datetime.weekday()

FieldRange(i) ==
    CASE i = 1 -> AllMinutes [] i = 2 -> AllHours [] i = 3 -> AllDoms
      [] i = 4 -> AllMonths [] i = 5 -> AllDows

\* croniter(expr, start) raises CroniterBadCronError unless the expression
\* has 5 fields, each a non-empty set of values of its range
CronValid(expr) ==
    /\ Len(expr) = 5
    /\ \A i \in 1 .. 5 : expr[i] # {} /\ expr[i] \subseteq FieldRange(i)

\* the day-of-month and day-of-week fields are alternatives when both are
\* restricted, and the month field always applies
DayMatches(expr, d) ==
    /\ MonthOf(d) \in expr[4]
    /\ IF expr[3] # AllDoms /\ expr[5] # AllDows
       THEN DomOf(d) \in expr[3] \/ (d % DaysPerWeek) \in expr[5]
       ELSE DomOf(d) \in expr[3] /\ (d % DaysPerWeek) \in expr[5]

\* least element of S in lo..hi, or -1
FirstIn(S, lo, hi) ==
    IF \E x \in lo .. hi : x \in S
    THEN CHOOSE x \in lo .. hi : x \in S /\ \A y \in lo .. (x - 1) : y \notin S
    ELSE 0 - 1

\* first day >= d that the date fields admit, or -1 past the search horizon
FirstDay(expr, d) ==
    IF \E x \in d .. LastDay : DayMatches(expr, x)
    THEN CHOOSE x \in d .. LastDay :
            DayMatches(expr, x) /\ \A y \in d .. (x - 1) : ~DayMatches(expr, y)
    ELSE 0 - 1

NoFiring == 0 - 1

\* it.get_next(datetime): the first firing strictly after wall time w
\* (NoFiring: croniter gives up and raises CroniterBadDateError)
GetNext(expr, w) ==
    LET d == w \div MinPerDay
        h == HourOf(w)
        m == MinuteOf(w)
        today == DayMatches(expr, d)
        mSame == FirstIn(expr[1], m + 1, 59)
        hLater == FirstIn(expr[2], h + 1, 23)
        m0 == FirstIn(expr[1], 0, 59)
        h0 == FirstIn(expr[2], 0, 23)
        dNext == FirstDay(expr, d + 1)
    IN  IF today /\ h \in expr[2] /\ mSame >= 0
        THEN d * MinPerDay + h * MinPerHour + mSame
        ELSE IF today /\ hLater >= 0
        THEN d * MinPerDay + hLater * MinPerHour + m0
        ELSE IF dNext >= 0
        THEN dNext * MinPerDay + h0 * MinPerHour + m0
        ELSE NoFiring

(***************************************************************************)
(* get_week_range and the search window of get_occurrences                 *)
(***************************************************************************)
\* generate.py:17-22
get_week_range(now) ==
    LET monday == (now - Weekday(now) * MinPerDay) - (now % MinPerDay)
    IN  [i \in 1 .. 7 |-> monday + (i - 1) * MinPerDay]

PadLowHours == 1
PadHighHours == 25
\* generate.py:30-31
week_start(j, wd) == ToJobWall(wd[1], TzName(j)) - PadLowHours * MinPerHour
\* (mutant: the upper bound without its pad, the last anchor itself)
week_end_no_pad(j, wd) == ToJobWall(wd[7], TzName(j))
week_end(j, wd) == ToJobWall(wd[7], TzName(j)) + PadHighHours * MinPerHour

\* generate.py:41-43: the triple appended for a firing at job wall time w
Occurrence(j, w) ==
    LET next_display == ToDisplay(w, TzName(j))
    IN  <<Weekday(next_display), HourOf(next_display), MinuteOf(next_display)>>

\* generate.py:42
DayIdxAdmitted(day_idx) == 0 <= day_idx /\ day_idx <= 6

\* (mutant: the loop without its break)
LoopEnds_no_break(j, wd, next_run) == next_run = NoFiring
\* generate.py:36-38, 44-45: the loop is left when get_next raises (caught by
\* the except clause) or returns a firing later than week_end
LoopEnds(j, wd, next_run) ==
    \/ next_run = NoFiring
    \/ next_run > week_end(j, wd)

(***************************************************************************)
(* Cron expressions and jobs the expander is run on                        *)
(***************************************************************************)
Star5 == <<AllMinutes, AllHours, AllDoms, AllMonths, AllDows>>
Daily(h, m) == <<{m}, {h}, AllDoms, AllMonths, AllDows>>
Weekly(h, m, dw) == <<{m}, {h}, AllDoms, AllMonths, {dw}>>
DailyCrons == {Daily(h, m) : h \in AllHours, m \in {0, 1, 30, 59}}
HalfHourly == <<{0, 30}, AllHours, AllDoms, AllMonths, AllDows>>
OtherCrons ==
    { <<{0}, AllHours, AllDoms, AllMonths, AllDows>>,       \* 0 * * * *
      HalfHourly,                                           \* 0,30 * * * *
      <<{0, 30}, {0, 12, 23}, AllDoms, AllMonths, {0, 6}>>, \* 0,30 0,12,23 * * 0,6
      Weekly(0, 30, 0), Weekly(23, 30, 6), Weekly(9, 0, 2),
      <<{0}, {0}, {25}, {12}, AllDows>>,                    \* 0 0 25 12 *
      <<{0}, {0}, {31}, {2}, AllDows>>,                     \* 0 0 31 2 *
      <<{0}, {0}, {9}, AllMonths, {0}>> }                   \* 0 0 9 * 0
BadCrons ==
    { << >>,                                                \* ""
      <<AllMinutes, AllHours, AllDoms, AllMonths>>,         \* * * * *
      <<{60}, AllHours, AllDoms, AllMonths, AllDows>> }     \* 60 * * * *

ExpJobs ==
    [cron : DailyCrons \cup OtherCrons \cup BadCrons, tz : KnownZones]
    \cup [cron : {Star5}, tz : {"Asia/Taipei", "Etc/GMT+12"}]
    \cup [cron : {Star5, Daily(9, 0), << >>}, tz : UnknownZones \cup {NoTz}]

\* clock values at which get_week_range is called: a Monday 10:13 and the
\* last minute of the Sunday of the following week
ExpNows == {7 * MinPerDay + 613, 20 * MinPerDay + 1439}
\* the calls explored: every job in both weeks, the every-minute cron in one
\* week and one zone
ExpCalls ==
    { c \in ExpJobs \X ExpNows :
        c[1].cron = Star5 =>
            c[2] = 7 * MinPerDay + 613 /\ c[1].tz \in {"Etc/GMT+12", "Mars/Phobos"} }
\* the calls explored for termination: the high-frequency crons, the crons
\* that fire rarely or never, two daily crons and the rejected expressions
LoopCalls ==
    { c \in ExpJobs \X ExpNows :
        /\ c[2] = 7 * MinPerDay + 613
        /\ c[1].cron \in OtherCrons \cup BadCrons
                         \cup {Star5, Daily(0, 0), Daily(23, 59)}
        /\ c[1].cron = Star5 => c[1].tz \in {"Asia/Taipei", "Mars/Phobos"} }

(***************************************************************************)
(* get_occurrences as a state machine                                      *)
(***************************************************************************)
\* the sync cycle at rest, for the specifications that do not run it
NoPage == << << >>, 0 - 1 >>
SynIdle ==
    /\ store = << >> /\ html = NoPage /\ head = <<store, html>>
    /\ ahead = 0 /\ stamp = 0 /\ q = << >> /\ fetched = << >>
    /\ s_pc = "off" /\ s_exit = 0 /\ s_cycles = 0 /\ s_edits = 0
    /\ store0 = << >> /\ s_log = {}

ExpInit ==
    /\ \E c \in ExpCalls : job = c[1] /\ week_days = get_week_range(c[2])
    /\ it = NoFiring /\ results = << >> /\ runs = << >> /\ pc = "call"
    /\ clock = 0 /\ r_jobs = << >> /\ r_week = << >> /\ r_now = 0
    /\ r_grid = << >> /\ r_idx = 0 /\ r_today = {} /\ r_pc = "idle"
    /\ r_ticks = 0
    /\ SynIdle
LoopInit ==
    /\ \E c \in LoopCalls : job = c[1] /\ week_days = get_week_range(c[2])
    /\ it = NoFiring /\ results = << >> /\ runs = << >> /\ pc = "call"
    /\ clock = 0 /\ r_jobs = << >> /\ r_week = << >> /\ r_now = 0
    /\ r_grid = << >> /\ r_idx = 0 /\ r_today = {} /\ r_pc = "idle"
    /\ r_ticks = 0
    /\ SynIdle

\* generate.py:26-31; ZoneInfo raises outside the try block
Enter ==
    /\ pc = "call"
    /\ pc' = IF ZoneResolves(TzName(job)) THEN "try" ELSE "raised"
    /\ UNCHANGED <<job, week_days, it, results, runs, renVars, synVars>>

\* (mutant: the iterator built outside the try block)
MakeIterUncaught ==
    /\ pc = "try"
    /\ IF CronValid(job.cron)
       THEN /\ it' = week_start(job, week_days)
            /\ pc' = "loop"
       ELSE /\ it' = it
            /\ pc' = "raised"
    /\ UNCHANGED <<job, week_days, results, runs, renVars, synVars>>
\* generate.py:33-34, 44-45
MakeIter ==
    /\ pc = "try"
    /\ IF CronValid(job.cron)
       THEN /\ it' = week_start(job, week_days)
            /\ pc' = "loop"
       ELSE /\ it' = it
            /\ pc' = "done"
    /\ UNCHANGED <<job, week_days, results, runs, renVars, synVars>>

\* generate.py:35-45, one iteration of the while loop
LoopStep ==
    /\ pc = "loop"
    /\ LET next_run == GetNext(job.cron, it)
           occ == Occurrence(job, next_run)
       IN  IF LoopEnds(job, week_days, next_run)
           THEN pc' = "done" /\ UNCHANGED <<it, results, runs>>
           ELSE /\ it' = next_run
                /\ results' = IF DayIdxAdmitted(occ[1])
                              THEN Append(results, occ) ELSE results
                /\ runs' = IF DayIdxAdmitted(occ[1])
                           THEN Append(runs, next_run) ELSE runs
                /\ pc' = "loop"
    /\ UNCHANGED <<job, week_days, renVars, synVars>>

ExpNext == Enter \/ MakeIter \/ LoopStep

SpecExpand == ExpInit /\ [][ExpNext]_vars

\* get_occurrences runs its loop to the end once it is in it: the interpreter
\* keeps executing, so every enabled step is eventually taken
SpecLoop == LoopInit /\ [][ExpNext]_vars /\ WF_vars(ExpNext)

(***************************************************************************)
(* Properties of get_occurrences                                           *)
(***************************************************************************)
JobOk == ZoneResolves(TzName(job)) /\ CronValid(job.cron)
WeekLo == week_days[1]
WeekHi == week_days[1] + MinPerWeek
\* the cron fires at job wall time w
Fires(expr, w) ==
    /\ DayMatches(expr, w \div MinPerDay)
    /\ HourOf(w) \in expr[2]
    /\ MinuteOf(w) \in expr[1]
\* job wall times of the firings whose display instant lies in the week
InWeekFirings ==
    LET lo == ToJobWall(WeekLo, TzName(job))
        hi == ToJobWall(WeekHi, TzName(job))
    IN  { w \in { d * MinPerDay + h * MinPerHour + m :
                    d \in (lo \div MinPerDay) .. (hi \div MinPerDay),
                    h \in job.cron[2], m \in job.cron[1] } :
            lo <= w /\ w < hi /\ DayMatches(job.cron, w \div MinPerDay) }
RunSet == { runs[i] : i \in DOMAIN runs }
InWeek(w) ==
    /\ WeekLo <= ToDisplay(w, TzName(job))
    /\ ToDisplay(w, TzName(job)) < WeekHi
IsDaily(expr) ==
    /\ CronValid(expr)
    /\ Cardinality(expr[1]) = 1 /\ Cardinality(expr[2]) = 1
    /\ expr[3] = AllDoms /\ expr[4] = AllMonths /\ expr[5] = AllDows
Count(seq, x) == Cardinality({ i \in DOMAIN seq : seq[i] = x })

\* C1: a once-daily job at H:M in the display timezone yields exactly 7
\* occurrences, one per day index 0..6, each (day, H, M), for every H and M.
C1_DailySevenOccurrences ==
    (pc = "done" /\ IsDaily(job.cron) /\ TzName(job) = DISPLAY_TZ) =>
        /\ Len(results) = 7
        /\ \A d \in 0 .. 6 : \E h \in job.cron[2], m \in job.cron[1] :
              Count(results, <<d, h, m>>) = 1

\* C2: every emitted occurrence comes from a firing whose display instant
\* lies in [Monday 00:00, following Monday 00:00) of the requested week.
C2_OnlyInWeekEmitted ==
    \A i \in DOMAIN runs : InWeek(runs[i])

\* C3: when get_occurrences returns for a job with a valid cron and a valid
\* timezone, every firing whose display instant lies in the requested week
\* has been emitted, as the (weekday, hour, minute) of that instant.
C3_NoInWeekFiringMissed ==
    (pc = "done" /\ JobOk) =>
        /\ InWeekFirings = { w \in RunSet : InWeek(w) }
        /\ Len(results) = Len(runs)
        /\ \A i \in DOMAIN runs :
              LET t == ToDisplay(runs[i], TzName(job))
              IN  /\ Fires(job.cron, runs[i])
                  /\ results[i] = <<Weekday(t), HourOf(t), MinuteOf(t)>>
                  /\ (i > 1 => runs[i - 1] < runs[i])
\* C3 witness: a job 20 hours behind the display timezone returned, with
\* firings on the first and on the last day of the week
C3_Witness ==
    /\ pc = "done" /\ JobOk /\ job.tz = "Etc/GMT+12"
    /\ \E i, k \in DOMAIN results : results[i][1] = 0 /\ results[k][1] = 6
    /\ \E w \in InWeekFirings : w < WeekLo

\* C5: with a valid timezone and an invalid cron expression get_occurrences
\* returns the empty list and never raises.
C5_BadCronYieldsEmpty ==
    (ZoneResolves(TzName(job)) /\ ~CronValid(job.cron)) =>
        /\ pc # "raised"
        /\ results = << >>
        /\ pc # "loop"
\* C5 witness: the call returned for the empty expression and a valid zone
C5_Witness ==
    pc = "done" /\ job.cron = << >> /\ ZoneResolves(TzName(job))

\* C9: for a valid cron and a valid timezone the loop terminates, it leaves
\* the loop only at a firing later than the padded upper bound (or when the
\* cron has no further firing), the window is at most 9 days wide and the
\* number of occurrences is at most the number of minutes of the window.
C9_LoopTerminatesBounded ==
    /\ JobOk => <>(pc = "done")
    /\ [](JobOk =>
            /\ week_end(job, week_days) - week_start(job, week_days)
                   <= 9 * MinPerDay
            /\ Len(results)
                   <= week_end(job, week_days) - week_start(job, week_days))
    /\ [][(pc = "loop" /\ pc' = "done") =>
            \/ GetNext(job.cron, it) = NoFiring
            \/ GetNext(job.cron, it) > ToJobWall(week_days[7], TzName(job))
                   + PadHighHours * MinPerHour]_vars
    /\ [][(pc = "loop" /\ pc' = "loop") =>
            /\ it' > it
            /\ GetNext(job.cron, it) # NoFiring
            /\ GetNext(job.cron, it) <= ToJobWall(week_days[7], TzName(job))
                   + PadHighHours * MinPerHour]_vars
\* C9 witness: the half-hourly cron in a zone 20 hours behind returned with
\* one occurrence per half hour of the window
C9_Witness ==
    /\ pc = "done" /\ job.cron = HalfHourly /\ job.tz = "Etc/GMT+12"
    /\ 30 * Len(results) = week_end(job, week_days) - week_start(job, week_days)

(***************************************************************************)
(* The render pass: main() of generate.py                                  *)
(***************************************************************************)
MaxJobs == 2        \* longest job list loaded
MaxTicks == 2       \* minutes the clock may advance during one pass

\* get_occurrences(job, week_days) as a function (generate.py:24-47):
\* whether the call raises, and the list it returns when it does not
RECURSIVE Collect(_, _, _, _)
Collect(j, wd, cur, acc) ==
    LET next_run == GetNext(j.cron, cur)
        occ == Occurrence(j, next_run)
    IN  IF LoopEnds(j, wd, next_run) THEN acc
        ELSE Collect(j, wd, next_run,
                     IF DayIdxAdmitted(occ[1]) THEN Append(acc, occ) ELSE acc)
get_occurrences_raises(j) == ~ZoneResolves(TzName(j))
get_occurrences(j, wd) ==
    IF ~CronValid(j.cron) THEN << >>
    ELSE Collect(j, wd, week_start(j, wd), << >>)

\* generate.py:54
EmptyGrid == [d \in 0 .. 6 |-> [h \in 0 .. 23 |-> << >>]]
\* generate.py:56-57: grid[day_idx][hour].append(job) for each occurrence
RECURSIVE Place(_, _, _, _)
Place(grid, k, occs, i) ==
    IF i > Len(occs) THEN grid
    ELSE Place([grid EXCEPT ![occs[i][1]][occs[i][2]] = Append(@, k)],
               k, occs, i + 1)

\* generate.py:64-68: the headers marked "today"
TodayHeaders(wd, now) == { i \in 1 .. 7 : DateOf(wd[i]) = DateOf(now) }

\* job lists of schedules/jobs.json
RenJobs ==
    { [cron |-> Daily(9, 0), tz |-> "UTC"],
      [cron |-> Weekly(23, 30, 6), tz |-> "Asia/Tokyo"],
      [cron |-> << >>, tz |-> "Asia/Taipei"],
      [cron |-> Daily(0, 30), tz |-> "Mars/Phobos"] }
RenJobLists == UNION { [1 .. n -> RenJobs] : n \in 0 .. MaxJobs }
\* clock values at which a pass starts: Monday 00:00, a Wednesday noon, the
\* last two minutes of a Sunday
RenClocks ==
    { 7 * MinPerDay, 9 * MinPerDay + 720, 14 * MinPerDay - 2, 14 * MinPerDay - 1 }

RenInit ==
    /\ job = [cron |-> << >>, tz |-> NoTz] /\ week_days = << >>
    /\ it = NoFiring /\ results = << >> /\ runs = << >> /\ pc = "idle"
    /\ clock \in RenClocks
    /\ r_jobs = << >> /\ r_week = << >> /\ r_now = 0
    /\ r_grid = << >> /\ r_idx = 0 /\ r_today = {} /\ r_pc = "load"
    /\ r_ticks = 0
    /\ SynIdle

\* time passes while the pass runs
Tick ==
    /\ r_pc \notin {"done", "crashed"}
    /\ r_ticks < MaxTicks
    /\ clock' = clock + 1
    /\ r_ticks' = r_ticks + 1
    /\ UNCHANGED <<r_jobs, r_week, r_now, r_grid, r_idx, r_today, r_pc, expVars, synVars>>

\* generate.py:146-147
LoadJobs ==
    /\ r_pc = "load"
    /\ r_jobs' \in RenJobLists
    /\ r_pc' = "week"
    /\ UNCHANGED <<clock, r_week, r_now, r_grid, r_idx, r_today, r_ticks, expVars, synVars>>

\* generate.py:149, get_week_range reads the clock
GetWeekRange ==
    /\ r_pc = "week"
    /\ r_week' = get_week_range(clock)
    /\ r_pc' = "now"
    /\ UNCHANGED <<clock, r_jobs, r_now, r_grid, r_idx, r_today, r_ticks, expVars, synVars>>

\* generate.py:50-54, generate_html reads the clock again
ReadNow ==
    /\ r_pc = "now"
    /\ r_now' = clock
    /\ r_grid' = EmptyGrid
    /\ r_idx' = 1
    /\ r_pc' = "grid"
    /\ UNCHANGED <<clock, r_jobs, r_week, r_today, r_ticks, expVars, synVars>>

\* generate.py:55-57, one job of the grid loop; an exception of
\* get_occurrences leaves generate_html and main
GridJob ==
    /\ r_pc = "grid"
    /\ r_idx <= Len(r_jobs)
    /\ LET occs == get_occurrences(r_jobs[r_idx], r_week)
       IN  IF get_occurrences_raises(r_jobs[r_idx])
           THEN r_pc' = "crashed" /\ UNCHANGED <<r_grid, r_idx>>
           ELSE /\ r_grid' = Place(r_grid, r_idx, occs, 1)
                /\ r_idx' = r_idx + 1
                /\ r_pc' = "grid"
    /\ UNCHANGED <<clock, r_jobs, r_week, r_now, r_today, r_ticks, expVars, synVars>>

\* generate.py:64-68 and 150-155: the headers, then the page is written
Headers ==
    /\ r_pc = "grid"
    /\ r_idx > Len(r_jobs)
    /\ r_today' = TodayHeaders(r_week, r_now)
    /\ r_pc' = "done"
    /\ UNCHANGED <<clock, r_jobs, r_week, r_now, r_grid, r_idx, r_ticks, expVars, synVars>>

RenNext == Tick \/ LoadJobs \/ GetWeekRange \/ ReadNow \/ GridJob \/ Headers

SpecRender == RenInit /\ [][RenNext]_vars

(***************************************************************************)
(* Properties of the render pass                                           *)
(***************************************************************************)
\* the cells job k occupies in the grid, with multiplicity
CellCount(grid, k, d, h) == Count(grid[d][h], k)
OccCount(occs, d, h) ==
    Cardinality({ i \in DOMAIN occs : occs[i][1] = d /\ occs[i][2] = h })

\* C4: a job whose tz resolves to no timezone is an isolated failure: the
\* pass does not raise, the job contributes nothing and every other job's
\* occurrences are in the grid.
C4_BadTzIsolated ==
    /\ r_pc # "crashed"
    /\ r_pc = "done" =>
          \A k \in DOMAIN r_jobs : \A d \in 0 .. 6, h \in 0 .. 23 :
              CellCount(r_grid, k, d, h) =
                  IF ZoneResolves(TzName(r_jobs[k]))
                  THEN OccCount(get_occurrences(r_jobs[k], r_week), d, h)
                  ELSE 0

\* C6: in every render pass exactly one of the 7 headers is marked today,
\* the one whose date is the display-timezone date at the time generate_html
\* picks today.
C6_ExactlyOneToday ==
    r_pc = "done" =>
        /\ Cardinality(r_today) = 1
        /\ \A i \in r_today : DateOf(r_week[i]) = DateOf(r_now)

(***************************************************************************)
(* The sync cycle: main() of sync_jobs.py                                  *)
(***************************************************************************)
MaxFetched == 2     \* most jobs the scheduler returns
MaxCycles == 2      \* sync cycles run
MaxEdits == 1       \* manual edits of the job store
MaxStamp == 1       \* last minute the clock reaches

NoKey == "<no key>"
NoColor == "<no color>"
DefaultColor == "#58A6FF"
CustomColor == "#C0FFEE"

\* sync_jobs.py:21-26 and the fallback of line 68
NameColor(name) ==
    CASE name = "daily-review" -> "#4A90D9"
      [] name = "stock-forum-daily" -> "#27AE60"
      [] name = "weekly-review" -> "#8E44AD"
      [] name = "generate-calendar" -> "#E67E22"
      [] OTHER -> DefaultColor

\* sync_jobs.py:50-57
SyntheticJob ==
    [name |-> "generate-calendar", cron |-> Daily(0, 0), tz |-> "UTC",
     color |-> NameColor("generate-calendar"), tag |-> "github-actions"]

\* sync_jobs.py:41-45: the records `existing` is built from, and
\* existing[name], the last record of the store with that name
Known(old, name) == { i \in DOMAIN old : old[i].name = name }
Existing(old, name) ==
    old[CHOOSE i \in Known(old, name) : \A k \in Known(old, name) : k <= i]

\* (mutant: the stored color is not consulted)
PickColor_ignore_stored(old, name) == NameColor(name)
\* sync_jobs.py:68
PickColor(old, name) ==
    IF Known(old, name) # {} /\ Existing(old, name).color # NoColor
    THEN Existing(old, name).color
    ELSE NameColor(name)

\* sync_jobs.py:61-64
JobName(f) == IF f.name = NoKey THEN "unknown" ELSE f.name
JobExpr(f) == IF f.hasExpr THEN f.expr ELSE << >>
JobTz(f) == IF f.tz = NoKey \/ f.tz = "" THEN "UTC" ELSE f.tz

\* sync_jobs.py:39-79
normalize(jobs, old) ==
    <<SyntheticJob>> \o
    [i \in 1 .. Len(jobs) |->
        [name |-> JobName(jobs[i]), cron |-> JobExpr(jobs[i]),
         tz |-> JobTz(jobs[i]), color |-> PickColor(old, JobName(jobs[i])),
         tag |-> "openclaw"]]

\* the jobs of the scheduler: one whose name NAME_COLORS knows, one without
\* schedule expression and with an empty tz, one without name and with a tz
\* that is no zone.  The scheduler lists each job at most once, and none
\* under the name of the synthetic job.
SchedulerJobs ==
    << [name |-> "daily-review", hasExpr |-> TRUE, expr |-> Daily(9, 0),
        tz |-> "Asia/Taipei"],
       [name |-> "backup", hasExpr |-> FALSE, expr |-> << >>, tz |-> ""],
       [name |-> NoKey, hasExpr |-> TRUE, expr |-> Weekly(23, 30, 6),
        tz |-> "Mars/Phobos"] >>
\* the jobs of SchedulerJobs at the indexes S, in order
Listing(S) ==
    [k \in 1 .. Cardinality(S) |->
        SchedulerJobs[CHOOSE i \in S : Cardinality({ j \in S : j < i }) = k - 1]]
FetchedLists ==
    { Listing(S) : S \in { T \in SUBSET DOMAIN SchedulerJobs :
                              Cardinality(T) <= MaxFetched } }
\* results of the subprocess: exit code and, when it printed JSON, the jobs
QueryResults ==
    [rc : {0}, parses : {TRUE}, jobs : FetchedLists]
    \cup [rc : {0, 1}, parses : {FALSE}, jobs : {<< >>}]
    \cup [rc : {1}, parses : {TRUE}, jobs : {Listing({1})}]

\* sync_jobs.py:28-37: whether the process ends there (sys.exit(1) on a
\* non-zero return code, JSONDecodeError on output that is no JSON), and
\* the jobs returned otherwise
\* (mutant: output that is no JSON is taken as an empty listing)
get_openclaw_jobs_exits_rc_only(r) == r.rc # 0
get_openclaw_jobs_exits(r) == r.rc # 0 \/ ~r.parses
get_openclaw_jobs(r) == r.jobs

\* generate.py run on the store: it fails when get_occurrences raises
GenerateFails(jobs) ==
    \E i \in DOMAIN jobs :
        get_occurrences_raises(jobs[i])
\* docs/index.html: the grid of the jobs and the update-time label
Page(jobs, minute) == <<jobs, minute>>

SynInit ==
    /\ job = [cron |-> << >>, tz |-> NoTz] /\ week_days = << >>
    /\ it = NoFiring /\ results = << >> /\ runs = << >> /\ pc = "idle"
    /\ clock = 0 /\ r_jobs = << >> /\ r_week = << >> /\ r_now = 0
    /\ r_grid = << >> /\ r_idx = 0 /\ r_today = {} /\ r_pc = "idle"
    /\ r_ticks = 0
    /\ store \in {<< >>, <<SyntheticJob>>}
    /\ html = NoPage /\ head = <<store, html>>
    /\ ahead = 0 /\ stamp = 0 /\ q = << >> /\ fetched = << >>
    /\ s_pc = "idle" /\ s_exit = 0 /\ s_cycles = 0 /\ s_edits = 0
    /\ store0 = store /\ s_log = {}

AtRest == s_pc \in {"idle", "exited"}
\* the process ends with the given status
Exit(status) == s_pc' = "exited" /\ s_exit' = status /\ fetched' = << >>
\* once something else happens, the record of the last cycle is dropped
Forget(newStore) ==
    /\ s_pc' = "idle" /\ s_exit' = 0
    /\ q' = << >> /\ s_log' = {} /\ store0' = newStore

\* a clock minute passes between two cycles
StampTick ==
    /\ AtRest /\ stamp < MaxStamp
    /\ stamp' = stamp + 1
    /\ Forget(store)
    /\ UNCHANGED <<store, html, head, ahead, fetched, s_cycles, s_edits,
                   expVars, renVars>>

\* the color of a job is set, or removed, by hand in the job store
EditColor ==
    /\ AtRest /\ s_edits < MaxEdits
    /\ \E n \in { store[i].name : i \in DOMAIN store },
          c \in {CustomColor, NoColor} :
          store' = [i \in DOMAIN store |->
                      IF store[i].name = n THEN [store[i] EXCEPT !.color = c]
                      ELSE store[i]]
    /\ s_edits' = s_edits + 1
    /\ Forget(store')
    /\ UNCHANGED <<html, head, ahead, stamp, fetched, s_cycles, expVars,
                   renVars>>

\* sync_jobs.py:29-32: a cycle starts and runs the scheduler query
RunQuery ==
    /\ AtRest /\ s_cycles < MaxCycles
    /\ q' \in QueryResults
    /\ s_cycles' = s_cycles + 1
    /\ store0' = store
    /\ s_log' = {"query"}
    /\ s_pc' = "query"
    /\ s_exit' = 0
    /\ UNCHANGED <<store, html, head, ahead, stamp, fetched, s_edits,
                   expVars, renVars>>

\* sync_jobs.py:33-37, 83-84
GetJobs ==
    /\ s_pc = "query"
    /\ IF get_openclaw_jobs_exits(q)
       THEN Exit(1)
       ELSE fetched' = get_openclaw_jobs(q) /\ s_pc' = "fetched"
                     /\ UNCHANGED s_exit
    /\ UNCHANGED <<store, html, head, ahead, stamp, q, s_cycles, s_edits,
                   store0, s_log, expVars, renVars>>

\* sync_jobs.py:86-90
NormalizeWrite ==
    /\ s_pc = "fetched"
    /\ store' = normalize(fetched, store)
    /\ s_log' = s_log \cup {"write"}
    /\ s_pc' = "written"
    /\ UNCHANGED <<html, head, ahead, stamp, q, fetched, s_exit, s_cycles,
                   s_edits, store0, expVars, renVars>>

\* sync_jobs.py:93-94, check=True
Regenerate ==
    /\ s_pc = "written"
    /\ s_log' = s_log \cup {"render"}
    /\ IF GenerateFails(store)
       THEN Exit(1) /\ UNCHANGED html
       ELSE html' = Page(store, stamp) /\ s_pc' = "rendered"
                  /\ UNCHANGED <<s_exit, fetched>>
    /\ UNCHANGED <<store, head, ahead, stamp, q, s_cycles, s_edits, store0,
                   expVars, renVars>>

\* sync_jobs.py:97-101, 108-109: git add -A, then git diff --cached --quiet
StageAndDiff ==
    /\ s_pc = "rendered"
    /\ IF <<store, html>> # head
       THEN s_log' = s_log \cup {"dirty"} /\ s_pc' = "staged"
                   /\ UNCHANGED <<s_exit, fetched>>
       ELSE s_log' = s_log \cup {"clean"} /\ Exit(0)
    /\ UNCHANGED <<store, html, head, ahead, stamp, q, s_cycles, s_edits,
                   store0, expVars, renVars>>

\* sync_jobs.py:102-105, check=True
Commit ==
    /\ s_pc = "staged"
    /\ \/ /\ head' = <<store, html>>
          /\ ahead' = ahead + 1
          /\ s_log' = s_log \cup {"commit"}
          /\ s_pc' = "committed"
          /\ UNCHANGED <<s_exit, fetched>>
       \/ /\ Exit(1)
          /\ s_log' = s_log \cup {"commit failed"}
          /\ UNCHANGED <<head, ahead>>
    /\ UNCHANGED <<store, html, stamp, q, s_cycles, s_edits, store0, expVars,
                   renVars>>

\* sync_jobs.py:106-107, check=True
Push ==
    /\ s_pc = "committed"
    /\ \/ /\ ahead' = 0
          /\ s_log' = s_log \cup {"push"}
          /\ Exit(0)
       \/ /\ Exit(1)
          /\ s_log' = s_log \cup {"push failed"}
          /\ UNCHANGED ahead
    /\ UNCHANGED <<store, html, head, stamp, q, s_cycles, s_edits, store0,
                   expVars, renVars>>

SynNext ==
    \/ StampTick \/ EditColor \/ RunQuery \/ GetJobs \/ NormalizeWrite
    \/ Regenerate \/ StageAndDiff \/ Commit \/ Push

SpecSync == SynInit /\ [][SynNext]_vars

(***************************************************************************)
(* Properties of the sync cycle                                            *)
(***************************************************************************)
QueryFailed(r) == r.rc # 0 \/ ~r.parses

\* C7: when the scheduler query fails (non-zero exit, or output that is no
\* JSON) the cycle ends at once with a non-zero exit status; the job store,
\* the page and the repository are as they were, and no write, render,
\* commit or push step has run.
C7_QueryFailureIsFatal ==
    [][(s_pc = "query" /\ QueryFailed(q)) =>
          /\ s_pc' = "exited" /\ s_exit' # 0
          /\ store' = store0 /\ store' = store
          /\ html' = html /\ head' = head /\ ahead' = ahead
          /\ s_log' \cap {"write", "render", "commit", "push",
                          "commit failed", "push failed"} = {}]_vars
\* C7 witness: a cycle ended by a query that exited 0 with unparseable
\* output, over a job store that holds fetched jobs
C7_Witness ==
    /\ s_pc = "exited" /\ s_exit = 1 /\ q # << >>
    /\ q.rc = 0 /\ ~q.parses
    /\ Len(store) > 1 /\ s_log = {"query"}

\* the records of the previous store that carry a color, by name
Colored(old, name) ==
    { i \in DOMAIN old : old[i].name = name /\ old[i].color # NoColor }

\* C8: normalize gives every fetched job whose name matches a record of the
\* previous job store that carries a color that stored color; a fetched
\* job with no stored record, or a stored record without color, gets the
\* NAME_COLORS / default color.
C8_StoredColorKept ==
    (s_pc = "written") =>
        /\ Len(store) = Len(fetched) + 1
        /\ \A i \in DOMAIN fetched :
              LET name == IF fetched[i].name = NoKey THEN "unknown"
                          ELSE fetched[i].name
                  new == store[i + 1]
              IN  /\ new.name = name
                  /\ \A k \in Colored(store0, name) :
                        new.color = store0[k].color
                  /\ Colored(store0, name) = {} =>
                        new.color =
                           IF name = "daily-review" THEN "#4A90D9"
                           ELSE "#58A6FF"
\* C8 witness: a fetched job that NAME_COLORS maps kept the custom color of
\* its stored record, while another fetched job got the default color
C8_Witness ==
    /\ s_pc = "written"
    /\ \E i \in DOMAIN fetched :
          /\ fetched[i].name = "daily-review"
          /\ Colored(store0, "daily-review") # {}
          /\ store[i + 1].color = CustomColor
    /\ \E i \in DOMAIN fetched :
          /\ fetched[i].name # "daily-review"
          /\ store[i + 1].color = DefaultColor

\* C10: a cycle that ends with exit status 0 leaves no local commit
\* unpushed; commit and push run exactly when the staged diff is non-empty,
\* and push runs only after a successful commit.
C10_SuccessLeavesNothingUnpushed ==
    (s_pc = "exited" /\ s_exit = 0) =>
        /\ ahead = 0
        /\ ("dirty" \in s_log) <=> ("commit" \in s_log /\ "push" \in s_log)
        /\ ("push" \in s_log) => ("commit" \in s_log)
=============================================================================
